---- MODULE Spec2Model ----
(***************************************************************************)
(* Model of examples/voice_agents/basic_agent.py: the process-wide flag    *)
(* agent_is_speaking, the two word lists, and the three MyAgent handlers   *)
(* on_enter, on_response_complete and on_message.                          *)
(*                                                                         *)
(* A str is a sequence of one-character strings, so that lower(), strip(), *)
(* split() and the substring test `word in text` are computed character by *)
(* character as Python computes them.                                      *)
(***************************************************************************)
EXTENDS Integers, Sequences, FiniteSets, TLC

\* ------------------------------------------------------------------------
\* Bounds
\* ------------------------------------------------------------------------

\* longest enumerated message (every string over Alphabet up to this length)
MaxLen == 2

\* longest enumerated message where two calls are compared with each other
MaxLenPair == 1

\* number of MyAgent instances (sessions) living in the process
NumAgents == 2

Agents == 1..NumAgents

\* ------------------------------------------------------------------------
\* GLOBAL STATE + CONFIG (basic_agent.py 26-41)
\* ------------------------------------------------------------------------

IGNORE_WORDS ==
    << <<"y", "e", "a", "h">>,
       <<"o", "k">>,
       <<"o", "k", "a", "y">>,
       <<"h", "m", "m">>,
       <<"u", "h", "-", "h", "u", "h">>,
       <<"r", "i", "g", "h", "t">> >>

INTERRUPT_WORDS ==
    << <<"s", "t", "o", "p">>,
       <<"w", "a", "i", "t">>,
       <<"n", "o">>,
       <<"h", "o", "l", "d", " ", "o", "n">> >>

\* The lists are configuration edited in place in the module.  Besides the
\* lists as shipped, a run may start from the edited configuration in which
\* "no" has also been added to the acknowledgement words.
IGNORE_WORDS_EDITED == Append(IGNORE_WORDS, <<"n", "o">>)

Configurations ==
    { [ignore |-> IGNORE_WORDS,        interrupt |-> INTERRUPT_WORDS],
      [ignore |-> IGNORE_WORDS_EDITED, interrupt |-> INTERRUPT_WORDS] }

\* ------------------------------------------------------------------------
\* Messages handed to on_message
\* ------------------------------------------------------------------------

Alphabet == {"n", "o", "k", " "}

BoundedStrings(n) == UNION { [1..k -> Alphabet] : k \in 0..n }

Phrases ==
    { <<"y", "e", "a", "h", " ", "o", "k", "a", "y">>,
      <<"n", "o", "s", "t", "a", "l", "g", "i", "c">>,
      <<"n", "o", " ", "w", "a", "i", "t", " ", "s", "t", "o", "p">>,
      <<"h", "o", "l", "d", " ", "o", "n">>,
      <<"h", "o", "l", "d", " ", " ", "o", "n">>,
      <<"o", "k", "a", "y", " ", "w", "h", "a", "t">>,
      <<"O", "K">>,
      <<"N", "o">>,
      <<" ", " ", "S", "t", "o", "p", " ", " ">>,
      <<"w", "h", "a", "t", " ", "t", "i", "m", "e", " ", "i", "s", " ",
        "t", "h", "e", " ", "m", "e", "e", "t", "i", "n", "g", " ",
        "t", "o", "m", "o", "r", "r", "o", "w">> }

Messages == BoundedStrings(MaxLen) \cup Phrases

\* The annotation of on_message is `message: str`; None is the one value
\* outside it that the properties speak of.  It is no sequence of characters.
NoneMessage == <<"None">>

AnyMessages == Messages \cup {NoneMessage}

PairPhrases ==
    { <<"n", "o">>, <<"o", "k">>, <<"N", "o">>, <<"n", "o", "k">> }

PairMessages == BoundedStrings(MaxLenPair) \cup PairPhrases

\* ------------------------------------------------------------------------
\* str methods used by on_message
\* ------------------------------------------------------------------------

LowerChar(c) ==
    CASE c = "A" -> "a" [] c = "B" -> "b" [] c = "C" -> "c" [] c = "D" -> "d"
      [] c = "E" -> "e" [] c = "F" -> "f" [] c = "G" -> "g" [] c = "H" -> "h"
      [] c = "I" -> "i" [] c = "J" -> "j" [] c = "K" -> "k" [] c = "L" -> "l"
      [] c = "M" -> "m" [] c = "N" -> "n" [] c = "O" -> "o" [] c = "P" -> "p"
      [] c = "Q" -> "q" [] c = "R" -> "r" [] c = "S" -> "s" [] c = "T" -> "t"
      [] c = "U" -> "u" [] c = "V" -> "v" [] c = "W" -> "w" [] c = "X" -> "x"
      [] c = "Y" -> "y" [] c = "Z" -> "z" [] OTHER -> c

\* message.lower()
lower(s) == [i \in 1..Len(s) |-> LowerChar(s[i])]

IsSpace(c) == c \in {" ", "\t", "\n", "\r"}

RECURSIVE lstrip(_)
lstrip(s) ==
    IF s # <<>> /\ IsSpace(Head(s)) THEN lstrip(Tail(s)) ELSE s

RECURSIVE rstrip(_)
rstrip(s) ==
    IF s # <<>> /\ IsSpace(s[Len(s)])
    THEN rstrip(SubSeq(s, 1, Len(s) - 1))
    ELSE s

\* .strip()
strip(s) == rstrip(lstrip(s))

\* the leading run of non-whitespace characters of s
RECURSIVE FirstToken(_)
FirstToken(s) ==
    IF s = <<>> \/ IsSpace(Head(s))
    THEN <<>>
    ELSE <<Head(s)>> \o FirstToken(Tail(s))

\* text.split(): the maximal runs of non-whitespace characters, in order
RECURSIVE split(_)
split(s) ==
    LET t == lstrip(s) IN
    IF t = <<>>
    THEN <<>>
    ELSE LET w == FirstToken(t) IN
         <<w>> \o split(SubSeq(t, Len(w) + 1, Len(t)))

\* `word in text` on two str: word occurs in text as a contiguous substring
Contains(word, text) ==
    \E i \in 1..(Len(text) - Len(word) + 1) :
        SubSeq(text, i, i + Len(word) - 1) = word

\* `word in LIST` on a list of str: exact equality with some entry
InList(word, list) == \E i \in 1..Len(list) : list[i] = word

\* a variant that compares the entries with the tokens of the text
contains_interrupt_tokens(text, interrupt) ==
    \E i \in 1..Len(interrupt) : InList(interrupt[i], split(text))

\* any(word in text for word in INTERRUPT_WORDS)
contains_interrupt(text, interrupt) ==
    \E i \in 1..Len(interrupt) : Contains(interrupt[i], text)

\* a variant that accepts a single acknowledgement word only
only_soft_words_single(words, ignore) ==
    /\ Len(words) = 1
    /\ InList(words[1], ignore)

\* a variant with any() in the place of all()
only_soft_words_any(words, ignore) ==
    /\ Len(words) > 0
    /\ \E i \in 1..Len(words) : InList(words[i], ignore)

\* a variant without the len(words) > 0 test
only_soft_words_vacuous(words, ignore) ==
    \A i \in 1..Len(words) : InList(words[i], ignore)

\* len(words) > 0 and all(word in IGNORE_WORDS for word in words)
only_soft_words(words, ignore) ==
    /\ Len(words) > 0
    /\ \A i \in 1..Len(words) : InList(words[i], ignore)

\* ------------------------------------------------------------------------
\* The return value of on_message
\* ------------------------------------------------------------------------

\* `return None`
None == [is_none |-> TRUE, value |-> <<>>]

\* `return message`
Returned(message) == [is_none |-> FALSE, value |-> message]

\* an exception leaves on_message: nothing is returned
Raised(exception) == [is_none |-> FALSE, value |-> <<exception>>]

\* a variant that returns the normalized text in the place of the message
Classify_returns_text(speaking, message, ignore, interrupt) ==
    LET text  == strip(lower(message))
        words == split(text)
    IN  IF message = NoneMessage
        THEN [branch |-> "AttributeError", ret |-> Raised("AttributeError")]
        ELSE
        IF speaking
        THEN IF contains_interrupt(text, interrupt)
             THEN [branch |-> "HardInterrupt", ret |-> Returned(text)]
             ELSE IF only_soft_words(words, ignore)
                  THEN [branch |-> "Ignore", ret |-> None]
                  ELSE [branch |-> "SemanticInterrupt", ret |-> Returned(text)]
        ELSE [branch |-> "PassThrough", ret |-> Returned(text)]

\* a variant that reads a None message as the empty text
Classify_none_as_empty(speaking, message, ignore, interrupt) ==
    LET text  == IF message = NoneMessage THEN <<>> ELSE strip(lower(message))
        words == split(text)
    IN  IF speaking
        THEN IF contains_interrupt(text, interrupt)
             THEN [branch |-> "HardInterrupt", ret |-> Returned(message)]
             ELSE IF only_soft_words(words, ignore)
                  THEN [branch |-> "Ignore", ret |-> None]
                  ELSE [branch |-> "SemanticInterrupt", ret |-> Returned(message)]
        ELSE [branch |-> "PassThrough", ret |-> Returned(message)]

\* a variant that drops acknowledgement words in the silent branch too
Classify_silent_filter(speaking, message, ignore, interrupt) ==
    LET text  == strip(lower(message))
        words == split(text)
    IN  IF message = NoneMessage
        THEN [branch |-> "AttributeError", ret |-> Raised("AttributeError")]
        ELSE
        IF speaking
        THEN IF contains_interrupt(text, interrupt)
             THEN [branch |-> "HardInterrupt", ret |-> Returned(message)]
             ELSE IF only_soft_words(words, ignore)
                  THEN [branch |-> "Ignore", ret |-> None]
                  ELSE [branch |-> "SemanticInterrupt", ret |-> Returned(message)]
        ELSE IF only_soft_words(words, ignore)
             THEN [branch |-> "Ignore", ret |-> None]
             ELSE [branch |-> "PassThrough", ret |-> Returned(message)]

\* Lines 90-115 for one value of agent_is_speaking: the branch taken (named
\* after the decision its log line announces) and the value returned.
\* None has no method lower: line 90 raises AttributeError before the flag
\* or the lists are looked at.
Classify(speaking, message, ignore, interrupt) ==
    LET text  == strip(lower(message))
        words == split(text)
    IN  IF message = NoneMessage
        THEN [branch |-> "AttributeError", ret |-> Raised("AttributeError")]
        ELSE
        IF speaking
        THEN IF contains_interrupt(text, interrupt)
             THEN [branch |-> "HardInterrupt", ret |-> Returned(message)]
             ELSE IF only_soft_words(words, ignore)
                  THEN [branch |-> "Ignore", ret |-> None]
                  ELSE [branch |-> "SemanticInterrupt", ret |-> Returned(message)]
        ELSE [branch |-> "PassThrough", ret |-> Returned(message)]

\* ------------------------------------------------------------------------
\* State
\* ------------------------------------------------------------------------

VARIABLES
    agent_is_speaking,   \* the module-level flag (line 31)
    ignore_words,        \* the list IGNORE_WORDS of this run
    interrupt_words,     \* the list INTERRUPT_WORDS of this run
    constructed,         \* the MyAgent instances that exist
    attempted,           \* history: the instances whose construction began
    frame,               \* the on_message call in progress, with its locals
    lastEvent,           \* history: the last lifecycle handler that ran
    own,                 \* history: the last lifecycle handler of each agent
    reply,               \* the runtime's playback of agent speech
    last,                \* history: the on_message call that returned last
    probe                \* history: an earlier on_message call, remembered

vars == <<agent_is_speaking, ignore_words, interrupt_words, constructed,
          attempted, frame, lastEvent, own, reply, last, probe>>

\* no on_message call is in progress
NoFrame ==
    [agent |-> 0, message |-> <<>>, pc |-> "idle", logged |-> FALSE,
     seen |-> {}, overlap |-> FALSE, signal |-> "none"]

\* no on_message call has returned
NoCall ==
    [agent |-> 0, message |-> <<>>, seen |-> {}, overlap |-> FALSE,
     signal |-> "none", own |-> "none", reply |-> "untracked",
     branch |-> "NoCall", ret |-> None]

\* what is kept of a returned call to compare a later call with
Snapshot(call) ==
    [message |-> call.message, seen |-> call.seen, signal |-> call.signal,
     branch |-> call.branch, ret |-> call.ret]

\* The lifecycle handlers are not recorded per agent.
NotTracked == <<>>

\* the lifecycle handler that agent a ran last
OwnEvent(o, a) == IF a \in DOMAIN o THEN o[a] ELSE "none"

\* agent a has run a lifecycle handler
Track(o, a, event) == IF a \in DOMAIN o THEN [o EXCEPT ![a] = event] ELSE o

\* the playback after the runtime began, or ended, speaking a reply
Playback(r, state) == IF r = "untracked" THEN r ELSE state

Init ==
    /\ agent_is_speaking = FALSE
    /\ \E c \in Configurations :
          /\ ignore_words = c.ignore
          /\ interrupt_words = c.interrupt
    /\ constructed = {}
    /\ attempted = {}
    /\ frame = NoFrame
    /\ lastEvent = "none"
    /\ own = NotTracked
    /\ reply = "untracked"
    /\ last = NoCall
    /\ probe = Snapshot(NoCall)

\* History kept for a call in progress: the values the flag has had since
\* the call was issued, and whether a lifecycle handler ran meanwhile.
Observe(f, value) ==
    IF f.pc = "idle"
    THEN f
    ELSE [f EXCEPT !.seen = @ \cup {value}, !.overlap = TRUE]

\* ------------------------------------------------------------------------
\* Handlers
\* ------------------------------------------------------------------------

\* a variant of __init__ that refuses word lists sharing an entry
MyAgent_init_validating(a) ==
    /\ a \notin attempted
    /\ attempted' = attempted \cup {a}
    /\ constructed' =
          IF \E i \in 1..Len(ignore_words) : InList(ignore_words[i], interrupt_words)
          THEN constructed
          ELSE constructed \cup {a}
    /\ UNCHANGED <<agent_is_speaking, ignore_words, interrupt_words,
                   frame, lastEvent, own, reply, last, probe>>

\* MyAgent() : __init__ passes the instructions to Agent.__init__ and does
\* nothing else; the word lists are not looked at.
MyAgent_init(a) ==
    /\ a \notin attempted
    /\ attempted' = attempted \cup {a}
    /\ constructed' = constructed \cup {a}
    /\ UNCHANGED <<agent_is_speaking, ignore_words, interrupt_words,
                   frame, lastEvent, own, reply, last, probe>>

\* a variant of on_enter that flips the flag
on_enter_toggle(a) ==
    /\ a \in constructed
    /\ agent_is_speaking' = ~agent_is_speaking
    /\ lastEvent' = "SpeechStarted"
    /\ own' = Track(own, a, "SpeechStarted")
    /\ reply' = Playback(reply, "speaking")
    /\ frame' = Observe(frame, ~agent_is_speaking)
    /\ UNCHANGED <<ignore_words, interrupt_words, constructed, attempted,
                   last, probe>>

\* generate_reply() (line 73) acts on the session object of the runtime,
\* which holds nothing the handlers of this module read: the runtime begins
\* to speak a reply.
on_enter(a) ==
    /\ a \in constructed
    /\ agent_is_speaking' = TRUE
    /\ lastEvent' = "SpeechStarted"
    /\ own' = Track(own, a, "SpeechStarted")
    /\ reply' = Playback(reply, "speaking")
    /\ frame' = Observe(frame, TRUE)
    /\ UNCHANGED <<ignore_words, interrupt_words, constructed, attempted,
                   last, probe>>

on_response_complete(a) ==
    /\ a \in constructed
    /\ agent_is_speaking' = FALSE
    /\ lastEvent' = "SpeechCompleted"
    /\ own' = Track(own, a, "SpeechCompleted")
    /\ reply' = Playback(reply, "finished")
    /\ frame' = Observe(frame, FALSE)
    /\ UNCHANGED <<ignore_words, interrupt_words, constructed, attempted,
                   last, probe>>

\* a variant of on_message that marks the agent silent when it lets an
\* interruption through
on_message_clears(a, message) ==
    /\ a \in constructed
    /\ frame.pc = "idle"
    /\ LET d == Classify(agent_is_speaking, message,
                         ignore_words, interrupt_words)
       IN  /\ last' = [agent |-> a, message |-> message,
                       seen |-> {agent_is_speaking}, overlap |-> FALSE,
                       signal |-> lastEvent, own |-> OwnEvent(own, a),
                       reply |-> reply,
                       branch |-> d.branch, ret |-> d.ret]
           /\ agent_is_speaking' =
                 IF d.branch = "HardInterrupt" THEN FALSE ELSE agent_is_speaking
    /\ UNCHANGED <<ignore_words, interrupt_words, constructed, attempted,
                   frame, lastEvent, own, reply, probe>>

\* a variant of on_message that marks the agent speaking when it hands a
\* fragment on to be answered
on_message_marks_speaking(a, message) ==
    /\ a \in constructed
    /\ frame.pc = "idle"
    /\ LET d == Classify(agent_is_speaking, message,
                         ignore_words, interrupt_words)
       IN  /\ last' = [agent |-> a, message |-> message,
                       seen |-> {agent_is_speaking}, overlap |-> FALSE,
                       signal |-> lastEvent, own |-> OwnEvent(own, a),
                       reply |-> reply,
                       branch |-> d.branch, ret |-> d.ret]
           /\ agent_is_speaking' =
                 IF d.ret = Returned(message) THEN TRUE ELSE agent_is_speaking
    /\ UNCHANGED <<ignore_words, interrupt_words, constructed, attempted,
                   frame, lastEvent, own, reply, probe>>

\* a variant of on_message that drops a fragment equal to the previous one
on_message_dedupe(a, message) ==
    /\ a \in constructed
    /\ frame.pc = "idle"
    /\ LET d == IF last.branch # "NoCall" /\ last.message = message
                THEN [branch |-> "Ignore", ret |-> None]
                ELSE Classify(agent_is_speaking, message,
                              ignore_words, interrupt_words)
       IN  last' = [agent |-> a, message |-> message,
                    seen |-> {agent_is_speaking}, overlap |-> FALSE,
                    signal |-> lastEvent, own |-> OwnEvent(own, a),
                    reply |-> reply,
                    branch |-> d.branch, ret |-> d.ret]
    /\ UNCHANGED <<agent_is_speaking, ignore_words, interrupt_words,
                   constructed, attempted, frame,
                   lastEvent, own, reply, probe>>

\* on_message has no await: on the event loop it runs from line 90 to its
\* return without any other handler in between.
on_message(a, message) ==
    /\ a \in constructed
    /\ frame.pc = "idle"
    /\ LET d == Classify(agent_is_speaking, message,
                         ignore_words, interrupt_words)
       IN  last' = [agent |-> a, message |-> message,
                    seen |-> {agent_is_speaking}, overlap |-> FALSE,
                    signal |-> lastEvent, own |-> OwnEvent(own, a),
                    reply |-> reply,
                    branch |-> d.branch, ret |-> d.ret]
    /\ UNCHANGED <<agent_is_speaking, ignore_words, interrupt_words,
                   constructed, attempted, frame, lastEvent, own, reply, probe>>

Next ==
    \/ \E a \in Agents : MyAgent_init(a)
    \/ \E a \in Agents : on_enter(a)
    \/ \E a \in Agents : on_response_complete(a)
    \/ \E a \in Agents : \E message \in Messages : on_message(a, message)

Spec == Init /\ [][Next]_vars

\* The same handlers, called with any message, None included.
NextAny ==
    \/ \E a \in Agents : MyAgent_init(a)
    \/ \E a \in Agents : on_enter(a)
    \/ \E a \in Agents : on_response_complete(a)
    \/ \E a \in Agents : \E message \in AnyMessages : on_message(a, message)

SpecAny == Init /\ [][NextAny]_vars

\* The same handlers, with the lifecycle handlers recorded per agent: each
\* MyAgent instance belongs to a session of its own (line 173), and all of
\* them live in one process and share the module-level flag.
InitSessions ==
    /\ agent_is_speaking = FALSE
    /\ \E c \in Configurations :
          /\ ignore_words = c.ignore
          /\ interrupt_words = c.interrupt
    /\ constructed = {}
    /\ attempted = {}
    /\ frame = NoFrame
    /\ lastEvent = "none"
    /\ own = [a \in Agents |-> "none"]
    /\ reply = "untracked"
    /\ last = NoCall
    /\ probe = Snapshot(NoCall)

NextSessions ==
    \/ \E a \in Agents : MyAgent_init(a)
    \/ \E a \in Agents : on_enter(a)
    \/ \E a \in Agents : on_response_complete(a)
    \/ \E a \in Agents : \E message \in PairMessages : on_message(a, message)

SpecSessions == InitSessions /\ [][NextSessions]_vars

\* The same handlers, with the playback of the runtime recorded.  on_enter
\* runs when the agent enters the session; a fragment that on_message hands
\* on is answered by the runtime with a further reply, for which no handler
\* of this module sets the flag.
InitReplies ==
    /\ agent_is_speaking = FALSE
    /\ \E c \in Configurations :
          /\ ignore_words = c.ignore
          /\ interrupt_words = c.interrupt
    /\ constructed = {}
    /\ attempted = {}
    /\ frame = NoFrame
    /\ lastEvent = "none"
    /\ own = NotTracked
    /\ reply = "none"
    /\ last = NoCall
    /\ probe = Snapshot(NoCall)

\* the runtime begins to speak its reply to the fragment handed on
later_reply ==
    /\ reply \notin {"untracked", "speaking"}
    /\ last.branch # "NoCall"
    /\ last.ret = Returned(last.message)
    /\ reply' = "speaking"
    /\ UNCHANGED <<agent_is_speaking, ignore_words, interrupt_words,
                   constructed, attempted, frame, lastEvent, own, last, probe>>

NextReplies ==
    \/ \E a \in Agents : MyAgent_init(a)
    \/ \E a \in Agents : on_enter(a)
    \/ \E a \in Agents : on_response_complete(a)
    \/ \E a \in Agents : \E message \in PairMessages : on_message(a, message)
    \/ later_reply

SpecReplies == InitReplies /\ [][NextReplies]_vars

\* ------------------------------------------------------------------------
\* on_message delivered on another execution context than the lifecycle
\* handlers: the handler is then not one step.  It reads the flag twice, at
\* line 97 for the log record and at line 102 for the decision, and a
\* lifecycle handler may run before, between or after the two reads.
\* ------------------------------------------------------------------------

\* lines 88-94: the call is issued and the locals are computed
om_call(a, message) ==
    /\ a \in constructed
    /\ frame.pc = "idle"
    /\ frame' = [agent |-> a, message |-> message, pc |-> "l96",
                 logged |-> FALSE, seen |-> {agent_is_speaking},
                 overlap |-> FALSE, signal |-> lastEvent]
    /\ last' = NoCall
    /\ UNCHANGED <<agent_is_speaking, ignore_words, interrupt_words,
                   constructed, attempted, lastEvent, own, reply, probe>>

\* lines 96-99: the log record reads the flag
om_log ==
    /\ frame.pc = "l96"
    /\ frame' = [frame EXCEPT !.pc = "l102", !.logged = agent_is_speaking]
    /\ UNCHANGED <<agent_is_speaking, ignore_words, interrupt_words,
                   constructed, attempted, lastEvent, own, reply, last, probe>>

\* a variant that tests the interruption against the value read for the
\* log record and the rest against a fresh read
om_branch_two_reads ==
    /\ frame.pc = "l102"
    /\ LET text  == strip(lower(frame.message))
           words == split(text)
           d == IF frame.logged /\ contains_interrupt(text, interrupt_words)
                THEN [branch |-> "HardInterrupt",
                      ret |-> Returned(frame.message)]
                ELSE IF agent_is_speaking /\ only_soft_words(words, ignore_words)
                THEN [branch |-> "Ignore", ret |-> None]
                ELSE IF agent_is_speaking
                THEN [branch |-> "SemanticInterrupt",
                      ret |-> Returned(frame.message)]
                ELSE [branch |-> "PassThrough",
                      ret |-> Returned(frame.message)]
       IN  last' = [agent |-> frame.agent, message |-> frame.message,
                    seen |-> frame.seen, overlap |-> frame.overlap,
                    signal |-> frame.signal,
                    own |-> OwnEvent(own, frame.agent),
                    reply |-> reply,
                    branch |-> d.branch, ret |-> d.ret]
    /\ frame' = NoFrame
    /\ UNCHANGED <<agent_is_speaking, ignore_words, interrupt_words,
                   constructed, attempted, lastEvent, own, reply, probe>>

\* lines 102-115: the flag is read once more, and that value decides
om_branch ==
    /\ frame.pc = "l102"
    /\ LET d == Classify(agent_is_speaking, frame.message,
                         ignore_words, interrupt_words)
       IN  last' = [agent |-> frame.agent, message |-> frame.message,
                    seen |-> frame.seen, overlap |-> frame.overlap,
                    signal |-> frame.signal,
                    own |-> OwnEvent(own, frame.agent),
                    reply |-> reply,
                    branch |-> d.branch, ret |-> d.ret]
    /\ frame' = NoFrame
    /\ UNCHANGED <<agent_is_speaking, ignore_words, interrupt_words,
                   constructed, attempted, lastEvent, own, reply, probe>>

NextThreads ==
    \/ \E a \in Agents : MyAgent_init(a)
    \/ \E a \in Agents : on_enter(a)
    \/ \E a \in Agents : on_response_complete(a)
    \/ \E a \in Agents : \E message \in Messages : om_call(a, message)
    \/ om_log
    \/ om_branch

SpecThreads == Init /\ [][NextThreads]_vars

\* ------------------------------------------------------------------------
\* Two calls of one run compared: any call that has returned may be kept
\* in probe, and is then compared with every later call.
\* ------------------------------------------------------------------------

Remember ==
    /\ last.branch # "NoCall"
    /\ probe # Snapshot(last)
    /\ probe' = Snapshot(last)
    /\ UNCHANGED <<agent_is_speaking, ignore_words, interrupt_words,
                   constructed, attempted, frame, lastEvent, own, reply, last>>

NextPair ==
    \/ \E a \in Agents : MyAgent_init(a)
    \/ \E a \in Agents : on_enter(a)
    \/ \E a \in Agents : on_response_complete(a)
    \/ \E a \in Agents : \E message \in PairMessages : on_message(a, message)
    \/ Remember

SpecPair == Init /\ [][NextPair]_vars

\* ------------------------------------------------------------------------
\* Properties
\* ------------------------------------------------------------------------

\* The text of a fragment as the properties speak of it.
Normalized(message) == strip(lower(message))

Tokens(message) == split(Normalized(message))

Range(list) == { list[i] : i \in 1..Len(list) }

\* some entry of the interrupt list is a contiguous piece of the text
HasInterruptSubstring(message) ==
    LET text == Normalized(message) IN
    \E w \in Range(interrupt_words) :
        \E i \in 1..Len(text) : \E j \in i..Len(text) :
            SubSeq(text, i, j) = w

\* every token is, as a whole, an entry of the acknowledgement list
EveryTokenSoft(message) ==
    \A t \in Range(Tokens(message)) : t \in Range(ignore_words)

\* on_message has returned, and the flag had the one value `speaking`
\* from the call to the return
CalledIn(speaking) ==
    /\ last.branch # "NoCall"
    /\ last.seen = {speaking}

Forwarded == last.ret = Returned(last.message)

\* C1 - Silent pass-through: a call made while the agent is silent takes
\* the pass-through branch and returns the message it was given, whatever
\* the text is and whatever the word lists hold.
C1_SilentPassThrough ==
    CalledIn(FALSE) => (last.branch = "PassThrough" /\ Forwarded)

\* C1 witness: "ok", an acknowledgement word, after the agent fell silent
C1_Witness ==
    /\ CalledIn(FALSE)
    /\ lastEvent = "SpeechCompleted"
    /\ last.message = <<"o", "k">>
    /\ EveryTokenSoft(last.message)
    /\ last.branch = "PassThrough"
    /\ Forwarded

\* C2 - Interrupt precedence: while speaking, a fragment whose normalized
\* text has an interrupt entry as a substring is a hard interrupt and is
\* forwarded, also when every token is an acknowledgement word.
C2_InterruptPrecedence ==
    (CalledIn(TRUE) /\ HasInterruptSubstring(last.message))
        => (last.branch = "HardInterrupt" /\ Forwarded)

\* C2 witness: "no" while it is on both lists
C2_Witness ==
    /\ CalledIn(TRUE)
    /\ HasInterruptSubstring(last.message)
    /\ Tokens(last.message) # <<>>
    /\ EveryTokenSoft(last.message)
    /\ last.branch = "HardInterrupt"
    /\ Forwarded

\* the entry "no" inside the longer token "nostalgic"
C2_WitnessInsideToken ==
    /\ CalledIn(TRUE)
    /\ last.message = <<"n", "o", "s", "t", "a", "l", "g", "i", "c">>
    /\ last.branch = "HardInterrupt"
    /\ Forwarded

\* C3 - Soft-word ignore: while speaking, a fragment with at least one
\* token, every token an exact entry of the acknowledgement list, and no
\* interrupt substring, is ignored: on_message returns None.
C3_SoftWordIgnore ==
    ( /\ CalledIn(TRUE)
      /\ Tokens(last.message) # <<>>
      /\ EveryTokenSoft(last.message)
      /\ ~HasInterruptSubstring(last.message) )
        => (last.branch = "Ignore" /\ last.ret = None)

\* C3 witness: "yeah okay"
C3_Witness ==
    /\ CalledIn(TRUE)
    /\ last.message = <<"y", "e", "a", "h", " ", "o", "k", "a", "y">>
    /\ Len(Tokens(last.message)) = 2
    /\ EveryTokenSoft(last.message)
    /\ last.branch = "Ignore"
    /\ last.ret = None

\* C4 - Semantic interrupt: while speaking, a fragment with at least one
\* token, no interrupt substring and some token that is not an
\* acknowledgement word is a semantic interrupt and is forwarded.
C4_SemanticInterrupt ==
    ( /\ CalledIn(TRUE)
      /\ Tokens(last.message) # <<>>
      /\ ~HasInterruptSubstring(last.message)
      /\ ~EveryTokenSoft(last.message) )
        => (last.branch = "SemanticInterrupt" /\ Forwarded)

\* C4 witness: "okay what", one acknowledgement word and one other word
C4_Witness ==
    /\ CalledIn(TRUE)
    /\ last.message = <<"o", "k", "a", "y", " ", "w", "h", "a", "t">>
    /\ ~EveryTokenSoft(last.message)
    /\ last.branch = "SemanticInterrupt"
    /\ Forwarded

\* C5 as stated - Empty-input ignore: a text without tokens is ignored
\* (None is returned) in both speech states.
C5_EmptyIgnored ==
    (last.branch # "NoCall" /\ Tokens(last.message) = <<>>)
        => (last.branch = "Ignore" /\ last.ret = None)

\* C5 amended - a text without tokens is never ignored: the message is
\* returned in both speech states, by the pass-through branch while silent
\* and by the semantic-interrupt branch while speaking.
C5_EmptyForwarded ==
    (last.branch # "NoCall" /\ Tokens(last.message) = <<>>)
        => /\ Forwarded
           /\ CalledIn(FALSE) => last.branch = "PassThrough"
           /\ CalledIn(TRUE) => last.branch = "SemanticInterrupt"

\* C5 witness: a whitespace-only text while speaking
C5_Witness ==
    /\ CalledIn(TRUE)
    /\ last.message = <<" ", " ">>
    /\ Tokens(last.message) = <<>>
    /\ last.branch = "SemanticInterrupt"
    /\ Forwarded

\* C6 - Lifecycle state machine: the flag starts False, and after any
\* sequence of on_enter / on_response_complete calls it is True exactly
\* when the last of them was on_enter; a repeated or unmatched call leaves
\* the flag where that rule puts it.
C6_Lifecycle ==
    agent_is_speaking = (lastEvent = "SpeechStarted")

\* C6 witness: a call saw the agent speaking after on_enter, and
\* on_response_complete then made it silent
C6_Witness ==
    /\ lastEvent = "SpeechCompleted"
    /\ ~agent_is_speaking
    /\ last.signal = "SpeechStarted"
    /\ CalledIn(TRUE)

\* C7 - Classifier frame condition: a step in which on_message returns
\* leaves the flag as it was, and every step that changes the flag is a
\* step of one of the two lifecycle handlers.
C7_ClassifierFrame ==
    [][ /\ (last' # last) => (agent_is_speaking' = agent_is_speaking)
        /\ (agent_is_speaking' # agent_is_speaking) => (lastEvent' # lastEvent)
      ]_vars

\* C7 witness: an interruption was let through and the agent still counts
\* as speaking
C7_Witness ==
    /\ CalledIn(TRUE)
    /\ last.branch = "HardInterrupt"
    /\ lastEvent = "SpeechStarted"
    /\ agent_is_speaking

Result(call) == [branch |-> call.branch, ret |-> call.ret]

\* C8 - Ordering guarantee: a call issued after a lifecycle handler has
\* completed, with no lifecycle handler running before it returns, decides
\* under the state that handler set; a call that overlaps lifecycle
\* handlers decides as on_message decides for one single value among those
\* the flag had between the call and the return.
C8_OrderingGuarantee ==
    (last.branch # "NoCall") =>
        /\ ~last.overlap =>
              Result(last) = Classify(last.signal = "SpeechStarted",
                                      last.message,
                                      ignore_words, interrupt_words)
        /\ last.overlap =>
              \E s \in last.seen :
                  Result(last) = Classify(s, last.message,
                                          ignore_words, interrupt_words)

\* C8 witness: the flag had both values while the call was in progress
C8_Witness ==
    /\ last.branch = "HardInterrupt"
    /\ last.overlap
    /\ last.seen = {TRUE, FALSE}

\* C9 - Determinism: two calls of a run made with the same value of the
\* flag and the same message take the same branch and return the same
\* value, whatever happened before each of them.
C9_Determinism ==
    ( /\ probe.branch # "NoCall"
      /\ last.branch # "NoCall"
      /\ probe.seen = last.seen
      /\ probe.message = last.message )
        => Result(probe) = Result(last)

\* C9 witness: "ok" before any lifecycle handler ran, and "ok" again after
\* the agent has spoken and fallen silent
C9_Witness ==
    /\ probe.branch # "NoCall"
    /\ probe.signal = "none"
    /\ last.signal = "SpeechCompleted"
    /\ probe.seen = last.seen
    /\ probe.message = <<"o", "k">>
    /\ last.message = <<"o", "k">>
    /\ Result(probe) = Result(last)

\* the two word lists share an entry
Overlapping == Range(ignore_words) \cap Range(interrupt_words) # {}

Decisions == {"PassThrough", "HardInterrupt", "SemanticInterrupt", "Ignore"}

\* C11 as stated - Totality: every call, with a null, empty or
\* whitespace-only text too, ends in one of the four decisions and never
\* in an error, and a null or empty text is ignored by the empty-input rule.
C11_Total ==
    (last.branch # "NoCall") =>
        /\ last.branch \in Decisions
        /\ (last.message = NoneMessage \/ Tokens(last.message) = <<>>)
              => last.branch = "Ignore"

\* C11 amended - every call with a str, the empty and the whitespace-only
\* text included, ends in one of the four decisions in either speech state;
\* a text without tokens is forwarded, not ignored; a call with None ends in
\* AttributeError in either speech state and returns nothing.
C11_TotalOnStr ==
    (last.branch # "NoCall") =>
        /\ (last.message # NoneMessage) =>
              /\ last.branch \in Decisions
              /\ (Tokens(last.message) = <<>>) => Forwarded
        /\ (last.message = NoneMessage) =>
              /\ last.branch = "AttributeError"
              /\ last.ret = Raised("AttributeError")

\* C11 witness: None handed to on_message while the agent speaks
C11_Witness ==
    /\ CalledIn(TRUE)
    /\ last.message = NoneMessage
    /\ last.branch = "AttributeError"

\* the empty text is answered, while the agent is silent
C11_WitnessEmpty ==
    /\ CalledIn(FALSE)
    /\ last.message = <<>>
    /\ last.branch \in Decisions

\* C12 - Per-session isolation: the state a call of on_message reads, and
\* the decision it returns, are those its own session's lifecycle handlers
\* set (silent before any of them ran); a lifecycle handler of another
\* session changes neither.
C12_SessionIsolation ==
    (last.branch # "NoCall") =>
        /\ last.seen = {last.own = "SpeechStarted"}
        /\ Result(last) = Classify(last.own = "SpeechStarted", last.message,
                                   ignore_words, interrupt_words)

\* two sessions are active, and the call was made in the one whose own
\* lifecycle handlers left it in the other state than the flag
C12_CrossTalk ==
    /\ Cardinality(constructed) >= 2
    /\ last.branch = "Ignore"
    /\ last.own = "none"
    /\ last.signal = "SpeechStarted"

\* the one case in which a fragment is dropped: the agent speaks, the text
\* has tokens, all of them acknowledgement words, and no interrupt entry
\* is a piece of the text
OnlyAcknowledgement ==
    /\ CalledIn(TRUE)
    /\ Tokens(last.message) # <<>>
    /\ EveryTokenSoft(last.message)
    /\ ~HasInterruptSubstring(last.message)

\* C13 - No substantive fragment is dropped: on_message returns None only
\* for an acknowledgement-only text while the agent speaks; in every other
\* case it returns the message it was given, character for character, not
\* the lowercased and trimmed text.
C13_NothingSubstantiveDropped ==
    (last.branch # "NoCall") =>
        /\ (last.ret = None) => OnlyAcknowledgement
        /\ (~OnlyAcknowledgement) => Forwarded

\* C13 witness: "  Stop  " while the agent speaks comes back with its
\* capital letter and its blanks
C13_Witness ==
    /\ CalledIn(TRUE)
    /\ last.message = <<" ", " ", "S", "t", "o", "p", " ", " ">>
    /\ Normalized(last.message) # last.message
    /\ ~OnlyAcknowledgement
    /\ Forwarded

====
